---- MODULE Spec2Model ----
(***************************************************************************)
(* Model of the `db` crate: the libSQL-backed store of xkcd comics, their  *)
(* text chunks (with embeddings) and the metadata table, as seen through   *)
(* one storage location and the Database handle opened on it.              *)
(*                                                                         *)
(* The storage location holds the committed content (`store`).  A handle   *)
(* owns one connection; an open transaction on that connection is a        *)
(* working copy (`txn`) that every statement issued through the handle     *)
(* reads and writes until it is committed or rolled back.                  *)
(***************************************************************************)
EXTENDS Integers, Sequences, FiniteSets, TLC

VARIABLES
  file,    \* does a storage artifact exist at the path
  store,   \* committed content of the artifact
  open,    \* is a Database handle (Database { conn }) live
  fk,      \* PRAGMA foreign_keys of the handle's connection
  txn,     \* <<>>, or <<working copy>> while a transaction is open on conn
  batch,   \* the insert_chunks_batch call in flight on the handle
  rowid,   \* last_insert_rowid() of the handle's connection
  single,  \* the insert_chunk call in flight between its execute and its return
  last,    \* the call step that was taken last, with the result it returned
  returned, \* the value that step returned with its result
  shared,  \* do several tasks call through the handle (&Database) at once
  opening  \* the Database::new calls in flight on the path, each at its step

vars == <<file, store, open, fk, txn, batch, rowid, single, last, returned, shared, opening>>

(***************************************************************************)
(* Constants of the program and bounds of the model                        *)
(***************************************************************************)
EMBEDDING_DIM == 1024

MaxRowId == 2
MaxBatchLen == 2
MaxNumbers == 2
MaxSecond == 1

None == "None"

ComicNumbers == {1, 2}
ChunkIndexes == {0}
HoverTexts == {"H"}
MetaKeys == {"INITIALIZED"}
MetaValues == {"true", "false"}

\* A Vec<f32> of len components that repeats `fill`, a sequence of floats, each
\* named by its shortest decimal text: component i is fill[((i - 1) % Len(fill)) + 1].
\* Cycle is [..].into_iter().cycle().take(len).collect(); Vec is vec![fill; len].
Cycle(fill, len) == [fill |-> fill, len |-> len]
Vec(fill, len) == Cycle(<<fill>>, len)
Embeddings == {Vec("0.5", EMBEDDING_DIM), Vec("0.0", 100), Vec("0.0", EMBEDDING_DIM + 1)}

make_comic(n, hover) ==
  [comic_number |-> n,
   title |-> "C",
   url |-> "https://explainxkcd.com/",
   xkcd_url |-> "https://xkcd.com/",
   hover_text |-> hover,
   last_revision_id |-> 12345,
   last_revision_timestamp |-> "20250127000000",
   scraped_at |-> "2025-01-27T00:00:00Z",
   updated_at |-> "2025-01-27T00:00:00Z"]

make_chunk(comic, idx, emb) ==
  [id |-> 0,
   comic_number |-> comic,
   chunk_text |-> "Chunk",
   chunk_index |-> idx,
   section_type |-> "Explanation",
   embedding |-> emb]

ComicInputs == {make_comic(n, h) : n \in ComicNumbers, h \in HoverTexts}
ChunkInputs ==
  {make_chunk(n, i, Vec("0.5", EMBEDDING_DIM)) : n \in ComicNumbers, i \in ChunkIndexes}
    \cup {make_chunk(1, 0, e) : e \in Embeddings}

\* the members of the batches: a chunk of each comic
BatchChunkInputs == {make_chunk(n, 0, Vec("0.5", EMBEDDING_DIM)) : n \in ComicNumbers}

\* a batch member whose embedding has the wrong length
BadChunk == make_chunk(1, 0, Vec("0.0", 100))

\* s with its element i replaced by x
Replace(s, i, x) == [j \in 1..Len(s) |-> IF j = i THEN x ELSE s[j]]

RECURSIVE SeqsUpTo(_, _)
SeqsUpTo(S, n) ==
  IF n = 0 THEN {<<>>}
  ELSE LET shorter == SeqsUpTo(S, n - 1)
       IN  shorter \cup {Append(s, x) : s \in {t \in shorter : Len(t) = n - 1}, x \in S}

\* the batches: every list of valid members, and the lists of chunks of comic 1
\* in which one member, at any place, is the one of wrong length
BatchInputs ==
  SeqsUpTo(BatchChunkInputs, MaxBatchLen)
    \cup {Replace(s, i, BadChunk) :
            s \in SeqsUpTo({make_chunk(1, 0, Vec("0.5", EMBEDDING_DIM))}, MaxBatchLen),
            i \in 1..MaxBatchLen}

\* the lists of comic numbers asked of get_comics_batch: any order, repeats,
\* and a number (3) that no comic has
BatchNumbers == {1, 2, 3}
NumberLists == SeqsUpTo(BatchNumbers, MaxNumbers)

\* Timestamps.  An instant is a time of 2024-01-01 UTC, to the millisecond; a
\* text is the sequence of the ASCII codes of its characters.
Instants == [sec : 0..MaxSecond, millis : {0, 500}]

Before(t1, t2) == t1.sec < t2.sec \/ (t1.sec = t2.sec /\ t1.millis < t2.millis)

RECURSIVE Digits(_, _)
\* n in decimal, `width` characters wide
Digits(n, width) ==
  IF width = 0 THEN <<>> ELSE Append(Digits(n \div 10, width - 1), 48 + (n % 10))

\* "2024-01-01T00:00:ss"
DateTimeText(t) ==
  <<50, 48, 50, 52, 45, 48, 49, 45, 48, 49, 84, 48, 48, 58, 48, 48, 58>> \o Digits(t.sec, 2)

\* the fraction of the second: none when it is zero, else ".mmm"
FractionText(t) == IF t.millis = 0 THEN <<>> ELSE <<46>> \o Digits(t.millis, 3)

\* the form the tests store: "2020-01-01T00:00:00Z"
ZText(t) == DateTimeText(t) \o FractionText(t) \o <<90>>

\* chrono's DateTime<Utc>::to_rfc3339(): the offset is written "+00:00"
to_rfc3339(t) == DateTimeText(t) \o FractionText(t) \o <<43, 48, 48, 58, 48, 48>>

\* the instant a stored "...Z" text names
InstantOf(text) == CHOOSE t \in Instants : ZText(t) = text

\* old.updated_at = "...".to_string()
make_comic_at(n, updated_at) == [make_comic(n, "H") EXCEPT !.updated_at = updated_at]

UpdatedComicInputs == {make_comic_at(n, ZText(t)) : n \in ComicNumbers, t \in Instants}

(***************************************************************************)
(* The storage engine: schema and statements                               *)
(***************************************************************************)
EmptyStore == [tables |-> {}, metadata |-> {}, comics |-> {}, chunks |-> {}, seq |-> 0]

\* migrations/001_schema.sql, in the order the specification lists it: the
\* comic table, the chunk table, the vector index, the metadata table, and
\* last the INITIALIZED marker.
SchemaStatements == <<"xkcd_comics", "xkcd_chunks", "chunks_vec_idx", "metadata", "INITIALIZED">>

AllTables == {"xkcd_comics", "xkcd_chunks", "chunks_vec_idx", "metadata"}

\* an insert that keeps the row the key had
InsertRow(rows, key, value) == rows \cup {[key |-> key, value |-> value]}

Upsert(rows, key, value) ==
  {r \in rows : r.key # key} \cup {[key |-> key, value |-> value]}

ExecSchemaStatement(d, s) ==
  IF s = "INITIALIZED"
  THEN [d EXCEPT !.metadata = Upsert(@, "INITIALIZED", "true")]
  ELSE [d EXCEPT !.tables = @ \cup {s}]

RECURSIVE ExecSchema(_, _)
\* the first k statements of the schema script, executed in order
ExecSchema(d, k) ==
  IF k = 0 THEN d ELSE ExecSchemaStatement(ExecSchema(d, k - 1), SchemaStatements[k])

\* the engine's default for PRAGMA foreign_keys on a new connection
EngineDefaultForeignKeys == FALSE

ComicExists(d, n) == \E c \in d.comics : c.comic_number = n
ChunksOf(d, n) == {r \in d.chunks : r.comic_number = n}
MetaRows(d, key) == {r \in d.metadata : r.key = key}


(***************************************************************************)
(* Vector codec and section type conversion                                *)
(***************************************************************************)
\* a length check that lets a longer embedding through
validate_embedding_at_least(embedding) ==
  IF embedding.len < EMBEDDING_DIM THEN "InvalidEmbeddingDimension" ELSE "Ok"

validate_embedding(embedding) ==
  IF embedding.len # EMBEDDING_DIM THEN "InvalidEmbeddingDimension" ELSE "Ok"

\* the floats of the tests and their IEEE 754 binary32 bit patterns
F32s == {"0.0", "0.5", "0.9", "1.0", "0.123", "0.456", "0.789"}

F32Bits(x) ==
  CASE x = "0.0" -> 0
    [] x = "0.5" -> 1056964608
    [] x = "0.9" -> 1063675494
    [] x = "1.0" -> 1065353216
    [] x = "0.123" -> 1039918957
    [] x = "0.456" -> 1055488213
    [] x = "0.789" -> 1061813223

\* the float of a bit pattern; "other" for one the tests do not name
F32FromBits(bits) ==
  IF \E x \in F32s : F32Bits(x) = bits
  THEN CHOOSE x \in F32s : F32Bits(x) = bits
  ELSE "other"

to_le_bytes(bits) ==
  <<bits % 256, (bits \div 256) % 256, (bits \div 65536) % 256, (bits \div 16777216) % 256>>

\* a decode that takes the first byte of a group as the most significant
from_be_bytes(b) == F32FromBits(16777216 * b[1] + 65536 * b[2] + 256 * b[3] + b[4])

\* f32::from_le_bytes([chunk[0], chunk[1], chunk[2], chunk[3]])
from_le_bytes(b) == F32FromBits(b[1] + 256 * b[2] + 65536 * b[3] + 16777216 * b[4])

RECURSIVE Flatten(_)
\* the sequences of ss, one after the other
Flatten(ss) == IF ss = <<>> THEN <<>> ELSE Head(ss) \o Flatten(Tail(ss))

\* serde_json text of the list: the decimal text of each component of the
\* repeated part, and how many components the list has
vec_to_json_string(embedding) == [text |-> embedding.fill, count |-> embedding.len]

\* the engine's vector32(): each number of the text as a binary32, packed
\* little-endian, 4 bytes a component; `le` is the bytes of the repeated part
vector32(json) ==
  [le |-> Flatten([i \in 1..Len(json.text) |-> to_le_bytes(F32Bits(json.text[i]))]),
   bytes |-> 4 * json.count]

\* a decode by from_be_bytes
f32_blob_to_vec_be(blob) ==
  Cycle([i \in 1..(Len(blob.le) \div 4) |-> from_be_bytes(SubSeq(blob.le, 4 * i - 3, 4 * i))],
        blob.bytes \div 4)

\* chunks_exact(4): one float per whole 4-byte group
f32_blob_to_vec(blob) ==
  Cycle([i \in 1..(Len(blob.le) \div 4) |-> from_le_bytes(SubSeq(blob.le, 4 * i - 3, 4 * i))],
        blob.bytes \div 4)

SectionTypes == {"TitleHover", "Explanation", "Transcript", "Trivia", "Other"}

\* a Display that lower-cases the variant name
SectionTypeToLowercase(s) ==
  CASE s = "TitleHover" -> "titlehover"
    [] s = "Explanation" -> "explanation"
    [] s = "Transcript" -> "transcript"
    [] s = "Trivia" -> "trivia"
    [] s = "Other" -> "other"

\* strum Display, serialize_all = "snake_case"
SectionTypeToString(s) ==
  CASE s = "TitleHover" -> "title_hover"
    [] s = "Explanation" -> "explanation"
    [] s = "Transcript" -> "transcript"
    [] s = "Trivia" -> "trivia"
    [] s = "Other" -> "other"

\* strum EnumString, serialize_all = "snake_case"; "Err" when nothing matches
SectionTypeFromStr(str) ==
  CASE str = "title_hover" -> "TitleHover"
    [] str = "explanation" -> "Explanation"
    [] str = "transcript" -> "Transcript"
    [] str = "trivia" -> "Trivia"
    [] str = "other" -> "Other"
    [] OTHER -> "Err"

(***************************************************************************)
(* Statements, as the engine executes them on a database content d         *)
(***************************************************************************)
\* an insert that replaces the row of the same comic_number
SqlInsertOrReplaceComic(d, comic) ==
  [ok |-> TRUE,
   db |-> [d EXCEPT !.comics = {c \in @ : c.comic_number # comic.comic_number} \cup {comic}]]

\* INSERT INTO xkcd_comics: comic_number is the primary key
SqlInsertComic(d, comic) ==
  IF ComicExists(d, comic.comic_number)
  THEN [ok |-> FALSE, db |-> d]
  ELSE [ok |-> TRUE, db |-> [d EXCEPT !.comics = @ \cup {comic}]]

\* an UPDATE with no WHERE clause
SqlUpdateEveryComic(d, n, rev_id, rev_ts, updated_at) ==
  [rows |-> Cardinality({c \in d.comics : c.comic_number = n}),
   db |-> [d EXCEPT !.comics =
             {[c EXCEPT !.last_revision_id = rev_id,
                        !.last_revision_timestamp = rev_ts,
                        !.updated_at = updated_at] : c \in @}]]

\* UPDATE xkcd_comics SET last_revision_id = ?, last_revision_timestamp = ?,
\* updated_at = ? WHERE comic_number = ?
SqlUpdateComic(d, n, rev_id, rev_ts, updated_at) ==
  [rows |-> Cardinality({c \in d.comics : c.comic_number = n}),
   db |-> [d EXCEPT !.comics =
             {IF c.comic_number = n
              THEN [c EXCEPT !.last_revision_id = rev_id,
                             !.last_revision_timestamp = rev_ts,
                             !.updated_at = updated_at]
              ELSE c : c \in @}]]

\* DELETE FROM xkcd_comics: with foreign keys on, the chunks' ON DELETE
\* CASCADE removes the comic's chunks in the same statement
SqlDeleteComic(d, n, fkOn) ==
  [rows |-> Cardinality({c \in d.comics : c.comic_number = n}),
   db |-> [d EXCEPT !.comics = {c \in @ : c.comic_number # n},
                    !.chunks = IF fkOn /\ ComicExists(d, n)
                               THEN {r \in @ : r.comic_number # n}
                               ELSE @]]

\* INSERT INTO xkcd_chunks: the id is the AUTOINCREMENT rowid; the embedding
\* column is F32_BLOB(EMBEDDING_DIM); the comic_number reference is checked
\* only with foreign keys on
SqlInsertChunk(d, chunk, fkOn) ==
  LET blob == vector32(vec_to_json_string(chunk.embedding))
      row == [id |-> d.seq + 1,
              comic_number |-> chunk.comic_number,
              chunk_text |-> chunk.chunk_text,
              chunk_index |-> chunk.chunk_index,
              section_type |-> IF chunk.section_type = None THEN None
                               ELSE SectionTypeToString(chunk.section_type),
              embedding |-> blob]
  IN  IF blob.bytes # 4 * EMBEDDING_DIM \/ (fkOn /\ ~ComicExists(d, chunk.comic_number))
      THEN [ok |-> FALSE, db |-> d, id |-> 0]
      ELSE [ok |-> TRUE,
            db |-> [d EXCEPT !.chunks = @ \cup {row}, !.seq = @ + 1],
            id |-> d.seq + 1]

\* the smallest comic_number stored
SqlMinComicNumber(d) ==
  IF d.comics = {} THEN <<>>
  ELSE <<CHOOSE n \in {c.comic_number : c \in d.comics} :
           \A c \in d.comics : n <= c.comic_number>>

\* SELECT MAX(comic_number) FROM xkcd_comics: the column of its one row,
\* <<>> for NULL (the table is empty) and <<n>> otherwise
SqlMaxComicNumber(d) ==
  IF d.comics = {} THEN <<>>
  ELSE <<CHOOSE n \in {c.comic_number : c \in d.comics} :
           \A c \in d.comics : c.comic_number <= n>>

\* json_each(?) over the serde_json text of the list: a row for each element
JsonEach(comic_numbers) == {comic_numbers[i] : i \in 1..Len(comic_numbers)}

\* the orders in which a SELECT with no ORDER BY may give the rows S
AnyOrder(S) ==
  {s \in [1..Cardinality(S) -> S] : \A i, j \in 1..Cardinality(S) : i # j => s[i] # s[j]}

\* SELECT * FROM xkcd_comics WHERE comic_number IN (SELECT value FROM json_each(?))
SqlSelectComicsIn(d, comic_numbers) ==
  AnyOrder({c \in d.comics : c.comic_number \in JsonEach(comic_numbers)})

\* a < b for two TEXT values: the bytes are compared, and a prefix is smaller
TextLess(a, b) ==
  \/ Len(a) < Len(b) /\ \A i \in 1..Len(a) : a[i] = b[i]
  \/ \E i \in 1..Len(a) :
       /\ i <= Len(b)
       /\ a[i] < b[i]
       /\ \A j \in 1..(i - 1) : a[j] = b[j]

\* SELECT * FROM xkcd_comics WHERE updated_at < ?
SqlSelectComicsUpdatedBefore(d, text) ==
  AnyOrder({c \in d.comics : TextLess(c.updated_at, text)})

SqlDeleteChunks(d, n) ==
  [rows |-> Cardinality(ChunksOf(d, n)),
   db |-> [d EXCEPT !.chunks = {r \in @ : r.comic_number # n}]]

(***************************************************************************)
(* The connection                                                          *)
(***************************************************************************)
\* what a statement issued through the handle reads
View == IF txn = <<>> THEN store ELSE txn[1]

\* what a statement issued through the handle writes: the open transaction
\* of the connection when there is one, the committed content otherwise
Write(d) ==
  IF txn = <<>>
  THEN store' = d /\ txn' = txn
  ELSE txn' = <<d>> /\ store' = store

Idle == [pc |-> "idle", chunks |-> <<>>, i |-> 0, ids |-> {}, pre |-> {}]

\* last_insert_rowid() of the connection after the insert of row id.  Its one
\* reader is insert_chunk, right after its own insert: the model keeps the
\* value where an insert of another task can come between the two, on a
\* handle that tasks share
LastInsertRowid(id) == IF shared THEN id ELSE rowid

\* no insert_chunk call is in flight; one in flight has executed its insert
\* (of row `own`) and has still to read last_insert_rowid()
NoInsert == [pc |-> "idle", own |-> 0]

\* the returned value has one type for each op: the id or row count of insert_chunk and
\* delete_chunks_for_comic, the rows of the reads, a string for the others
Done(op, result, v) ==
  /\ last' = [op |-> op, result |-> result]
  /\ returned' = v

EngineFaults == {"prepare", "execute"}

\* a lone caller awaits each call before it makes the next; tasks that share
\* the handle call while another task's call is suspended at an await
MayCall == shared \/ batch.pc = "idle"


(***************************************************************************)
(* Metadata store (metadata.rs)                                            *)
(***************************************************************************)
\* a read that reports a missing row as a failed query
get_metadata_on_generic(d, key, f) ==
  IF f = "prepare" \/ "metadata" \notin d.tables
  THEN [result |-> "PreparedFailed", value |-> None]
  ELSE IF f = "execute" \/ MetaRows(d, key) = {}
  THEN [result |-> "QueryFailed", value |-> None]
  ELSE [result |-> "Ok", value |-> (CHOOSE r \in MetaRows(d, key) : TRUE).value]

\* get_metadata as a function of the content it reads
get_metadata_on(d, key, f) ==
  IF f = "prepare" \/ "metadata" \notin d.tables
  THEN [result |-> "PreparedFailed", value |-> None]
  ELSE IF f = "execute"
  THEN [result |-> "QueryFailed", value |-> None]
  ELSE IF MetaRows(d, key) = {}
  THEN [result |-> "MetadataNotFound", value |-> None]
  ELSE [result |-> "Ok", value |-> (CHOOSE r \in MetaRows(d, key) : TRUE).value]

get_metadata(key, f) ==
  /\ MayCall
  /\ open
  /\ LET r == get_metadata_on(View, key, f)
     IN  Done("get_metadata", r.result, r.value)
  /\ UNCHANGED <<file, store, open, fk, txn, batch>>
  /\ UNCHANGED <<opening, shared, rowid, single>>

set_metadata(key, value, f) ==
  /\ MayCall
  /\ open
  /\ LET d == View
     IN  IF f = "prepare" \/ "metadata" \notin d.tables
         THEN /\ Done("set_metadata", "PreparedFailed", None)
              /\ UNCHANGED <<store, txn>>
         ELSE IF f = "execute"
         THEN /\ Done("set_metadata", "QueryFailed", None)
              /\ UNCHANGED <<store, txn>>
         ELSE /\ Write([d EXCEPT !.metadata = Upsert(@, key, value)])
              /\ Done("set_metadata", "Ok", value)
  /\ UNCHANGED <<file, open, fk, batch>>
  /\ UNCHANGED <<opening, shared, rowid, single>>

(***************************************************************************)
(* Opening a handle (lib.rs, schema.rs)                                    *)
(***************************************************************************)
\* execute_batch of the schema script; statement `failAt` fails (0: none
\* does), and the statements before it stay executed
create_tables(d, failAt) ==
  IF failAt = 0
  THEN [result |-> "Ok", db |-> ExecSchema(d, Len(SchemaStatements))]
  ELSE [result |-> "QueryFailed", db |-> ExecSchema(d, failAt - 1)]

\* an init that opens the connection and returns it without create_tables
init_without_create_tables(exists, d, f, failAt) ==
  IF exists
  THEN [result |-> "InitializationError", file |-> exists, db |-> d, open |-> FALSE, fk |-> FALSE]
  ELSE IF f = "build"
  THEN [result |-> "LibSql", file |-> FALSE, db |-> d, open |-> FALSE, fk |-> FALSE]
  ELSE IF f = "pragma"
  THEN [result |-> "QueryFailed", file |-> TRUE, db |-> d, open |-> FALSE, fk |-> FALSE]
  ELSE [result |-> "Ready", file |-> TRUE, db |-> d, open |-> TRUE, fk |-> TRUE]

\* Database::init: the outcome of initializing the path
init(exists, d, f, failAt) ==
  IF exists
  THEN [result |-> "InitializationError", file |-> exists, db |-> d, open |-> FALSE, fk |-> FALSE]
  ELSE IF f = "build"
  THEN [result |-> "LibSql", file |-> FALSE, db |-> d, open |-> FALSE, fk |-> FALSE]
  ELSE IF f = "pragma"
  THEN [result |-> "QueryFailed", file |-> TRUE, db |-> d, open |-> FALSE, fk |-> FALSE]
  ELSE LET r == create_tables(d, IF f = "schema" THEN failAt ELSE 0)
       IN  [result |-> IF r.result = "Ok" THEN "Ready" ELSE r.result,
            file |-> TRUE,
            db |-> r.db,
            open |-> r.result = "Ok",
            fk |-> r.result = "Ok"]

\* an open that takes the marker the wrong way round
open_existing_inverted(d, f) ==
  IF f = "build"
  THEN [result |-> "LibSql", file |-> TRUE, db |-> d, open |-> FALSE, fk |-> FALSE]
  ELSE LET initialized == get_metadata_on(d, "INITIALIZED", f)
       IN  IF initialized.result # "Ok"
           THEN [result |-> initialized.result, file |-> TRUE, db |-> d,
                 open |-> FALSE, fk |-> FALSE]
           ELSE IF initialized.value # "true"
           THEN [result |-> "Ready", file |-> TRUE, db |-> d,
                 open |-> TRUE, fk |-> EngineDefaultForeignKeys]
           ELSE [result |-> "InitializationError", file |-> TRUE, db |-> d,
                 open |-> FALSE, fk |-> FALSE]

\* the branch of Database::new that opens an artifact that exists
open_existing(d, f) ==
  IF f = "build"
  THEN [result |-> "LibSql", file |-> TRUE, db |-> d, open |-> FALSE, fk |-> FALSE]
  ELSE LET initialized == get_metadata_on(d, "INITIALIZED", f)
       IN  IF initialized.result # "Ok"
           THEN [result |-> initialized.result, file |-> TRUE, db |-> d,
                 open |-> FALSE, fk |-> FALSE]
           ELSE IF initialized.value = "true"
           THEN [result |-> "Ready", file |-> TRUE, db |-> d,
                 open |-> TRUE, fk |-> EngineDefaultForeignKeys]
           ELSE [result |-> "InitializationError", file |-> TRUE, db |-> d,
                 open |-> FALSE, fk |-> FALSE]

NewFaults(exists) ==
  IF exists THEN {"none", "build", "prepare", "execute"}
  ELSE {"none", "build", "pragma", "schema"}

\* Database::new(path)
new(f, failAt) ==
  /\ MayCall
  /\ ~open
  /\ f \in NewFaults(file)
  /\ (f # "schema") => failAt = 1
  /\ LET r == IF file THEN open_existing(store, f) ELSE init(file, store, f, failAt)
     IN  /\ file' = r.file
         /\ store' = r.db
         /\ open' = r.open
         /\ fk' = r.fk
         /\ Done("new", r.result, IF file THEN "existing" ELSE "fresh")
  /\ rowid' = 0
  /\ UNCHANGED <<txn, batch>>
  /\ UNCHANGED <<opening, shared, single>>

\* the tasks that may call Database::new(path) on the one path
Openers == {1, 2}

\* no call of Database::new is in flight and create_tables has not run
NoOpening == [pc |-> [i \in Openers |-> "idle"], runs |-> 0]

\* a step of caller i's Database::new: the call moves on to `pc`
Step(i, pc, op, result) ==
  /\ opening' = [opening EXCEPT !.pc[i] = pc]
  /\ Done(op, result, None)

\* Database::new: if std::fs::metadata(path).is_ok()
new_metadata_is_ok(i) ==
  /\ opening.pc[i] = "idle"
  /\ Step(i, IF file THEN "existing" ELSE "init", "new_metadata_is_ok", "Ok")
  /\ UNCHANGED <<file, store, open, fk, txn, batch, rowid, single, shared>>

\* Database::new, the artifact was there: open it and read the marker
new_open_existing(i, f) ==
  /\ opening.pc[i] = "existing"
  /\ f \in NewFaults(TRUE)
  /\ LET r == open_existing(store, f)
     IN  Step(i, IF r.open THEN "ready" ELSE "failed", "new_open_existing", r.result)
  /\ UNCHANGED <<file, store, open, fk, txn, batch, rowid, single, shared>>

\* Database::init: if std::fs::metadata(path).is_ok()
init_metadata_is_ok(i) ==
  /\ opening.pc[i] = "init"
  /\ IF file
     THEN Step(i, "failed", "init_metadata_is_ok", "InitializationError")
     ELSE Step(i, "build", "init_metadata_is_ok", "Ok")
  /\ UNCHANGED <<file, store, open, fk, txn, batch, rowid, single, shared>>

\* Database::init: Builder::new_local(path).build().await, db.connect()
init_build(i, f) ==
  /\ opening.pc[i] = "build"
  /\ f \in {"none", "build"}
  /\ IF f = "build"
     THEN /\ Step(i, "failed", "init_build", "LibSql")
          /\ UNCHANGED file
     ELSE /\ Step(i, "pragma", "init_build", "Ok")
          /\ file' = TRUE
  /\ UNCHANGED <<store, open, fk, txn, batch, rowid, single, shared>>

\* Database::init: PRAGMA foreign_keys = ON
init_pragma(i, f) ==
  /\ opening.pc[i] = "pragma"
  /\ f \in {"none", "pragma"}
  /\ IF f = "pragma"
     THEN Step(i, "failed", "init_pragma", "QueryFailed")
     ELSE Step(i, "schema", "init_pragma", "Ok")
  /\ UNCHANGED <<file, store, open, fk, txn, batch, rowid, single, shared>>

\* Database::init: db.create_tables().await?, Ok(db)
init_create_tables(i, failAt) ==
  /\ opening.pc[i] = "schema"
  /\ failAt \in 0..Len(SchemaStatements)
  /\ LET r == create_tables(store, failAt)
     IN  /\ store' = r.db
         /\ opening' = [pc |-> [opening.pc EXCEPT ![i] = IF r.result = "Ok" THEN "ready" ELSE "failed"],
                        runs |-> opening.runs + 1]
         /\ Done("init_create_tables", r.result, None)
  /\ UNCHANGED <<file, open, fk, txn, batch, rowid, single, shared>>

\* caller i is done with what Database::new returned it
new_returned(i) ==
  /\ opening.pc[i] \in {"ready", "failed"}
  /\ Step(i, "idle", "new_returned", "Ok")
  /\ UNCHANGED <<file, store, open, fk, txn, batch, rowid, single, shared>>

\* the handle goes out of scope; no call borrows it any more
drop ==
  /\ open
  /\ batch.pc = "idle"
  /\ single.pc = "idle"
  /\ open' = FALSE
  /\ fk' = FALSE
  /\ rowid' = 0
  /\ Done("drop", "Ok", None)
  /\ UNCHANGED <<file, store, txn, batch>>
  /\ UNCHANGED <<opening, shared, single>>

(***************************************************************************)
(* Comic repository (comics.rs)                                            *)
(***************************************************************************)
insert_comic(comic, f) ==
  /\ MayCall
  /\ open
  /\ LET d == View
         r == SqlInsertComic(d, comic)
     IN  IF f = "prepare" \/ "xkcd_comics" \notin d.tables
         THEN /\ Done("insert_comic", "PreparedFailed", None)
              /\ UNCHANGED <<store, txn>>
         ELSE IF f = "execute" \/ ~r.ok
         THEN /\ Done("insert_comic", "QueryFailed", None)
              /\ UNCHANGED <<store, txn>>
         ELSE /\ Write(r.db)
              /\ Done("insert_comic", "Ok", None)
  /\ UNCHANGED <<file, open, fk, batch>>
  /\ UNCHANGED <<opening, shared, rowid, single>>

UpdateNumbers == {1}

UpdateInput == [last_revision_id |-> 99999,
                last_revision_timestamp |-> "20250128000000",
                updated_at |-> "2025-01-28T00:00:00Z"]

update_comic(comic_number, last_revision_id, last_revision_timestamp, updated_at, f) ==
  /\ MayCall
  /\ open
  /\ LET d == View
         r == SqlUpdateComic(d, comic_number, last_revision_id, last_revision_timestamp, updated_at)
     IN  IF f = "prepare" \/ "xkcd_comics" \notin d.tables
         THEN /\ Done("update_comic", "PreparedFailed", None)
              /\ UNCHANGED <<store, txn>>
         ELSE IF f = "execute"
         THEN /\ Done("update_comic", "QueryFailed", None)
              /\ UNCHANGED <<store, txn>>
         ELSE /\ Write(r.db)
              /\ Done("update_comic", IF r.rows = 0 THEN "InvalidComicNumber" ELSE "Ok", None)
  /\ UNCHANGED <<file, open, fk, batch>>
  /\ UNCHANGED <<opening, shared, rowid, single>>

delete_comic(comic_number, f) ==
  /\ MayCall
  /\ open
  /\ LET d == View
         r == SqlDeleteComic(d, comic_number, fk)
     IN  IF f = "prepare" \/ "xkcd_comics" \notin d.tables
         THEN /\ Done("delete_comic", "PreparedFailed", None)
              /\ UNCHANGED <<store, txn>>
         ELSE IF f = "execute"
         THEN /\ Done("delete_comic", "QueryFailed", None)
              /\ UNCHANGED <<store, txn>>
         ELSE /\ Write(r.db)
              /\ Done("delete_comic", IF r.rows = 0 THEN "InvalidComicNumber" ELSE "Ok", None)
  /\ UNCHANGED <<file, open, fk, batch>>
  /\ UNCHANGED <<opening, shared, rowid, single>>

get_max_comic_number(f) ==
  /\ MayCall
  /\ open
  /\ LET d == View
     IN  IF f = "prepare" \/ "xkcd_comics" \notin d.tables
         THEN Done("get_max_comic_number", "PreparedFailed", 0)
         ELSE IF f = "execute"
         THEN Done("get_max_comic_number", "QueryFailed", 0)
         ELSE IF SqlMaxComicNumber(d) = <<>>
         THEN Done("get_max_comic_number", "NoComicsFound", 0)
         ELSE Done("get_max_comic_number", "Ok", SqlMaxComicNumber(d)[1])
  /\ UNCHANGED <<file, store, open, fk, txn, batch>>
  /\ UNCHANGED <<opening, shared, rowid, single>>

\* a failed prepare goes out through `?`, as DatabaseError::LibSql
get_comics_batch(comic_numbers, f) ==
  /\ MayCall
  /\ open
  /\ LET d == View
     IN  IF f = "prepare" \/ "xkcd_comics" \notin d.tables
         THEN Done("get_comics_batch", "LibSql", <<>>)
         ELSE IF f = "execute"
         THEN Done("get_comics_batch", "QueryFailed", <<>>)
         ELSE \E rows \in SqlSelectComicsIn(d, comic_numbers) :
                Done("get_comics_batch", "Ok", rows)
  /\ UNCHANGED <<file, store, open, fk, txn, batch>>
  /\ UNCHANGED <<opening, shared, rowid, single>>

get_comics_needing_update(older_than, f) ==
  /\ MayCall
  /\ open
  /\ LET d == View
     IN  IF f = "prepare" \/ "xkcd_comics" \notin d.tables
         THEN Done("get_comics_needing_update", "PreparedFailed", <<>>)
         ELSE IF f = "execute"
         THEN Done("get_comics_needing_update", "QueryFailed", <<>>)
         ELSE \E rows \in SqlSelectComicsUpdatedBefore(d, to_rfc3339(older_than)) :
                Done("get_comics_needing_update", "Ok", rows)
  /\ UNCHANGED <<file, store, open, fk, txn, batch>>
  /\ UNCHANGED <<opening, shared, rowid, single>>


(***************************************************************************)
(* Chunk repository (chunks.rs)                                            *)
(***************************************************************************)
\* row ids the batch in flight has still to take (the model stops at MaxRowId)
Reserved == IF batch.pc \in {"prepare", "execute"} THEN Len(batch.chunks) - (batch.i - 1) ELSE 0

insert_chunk(chunk, f) ==
  /\ MayCall
  /\ open
  /\ LET d == View
         r == SqlInsertChunk(d, chunk, fk)
     IN  IF validate_embedding(chunk.embedding) # "Ok"
         THEN /\ Done("insert_chunk", validate_embedding(chunk.embedding), 0)
              /\ UNCHANGED <<store, txn, rowid, single>>
         ELSE IF f = "prepare" \/ "xkcd_chunks" \notin d.tables
         THEN /\ Done("insert_chunk", "PreparedFailed", 0)
              /\ UNCHANGED <<store, txn, rowid, single>>
         ELSE IF f = "execute" \/ ~r.ok
         THEN /\ Done("insert_chunk", "QueryFailed", 0)
              /\ UNCHANGED <<store, txn, rowid, single>>
         ELSE /\ d.seq + Reserved < MaxRowId
              /\ Write(r.db)
              /\ rowid' = LastInsertRowid(r.id)
              /\ IF shared /\ single.pc = "idle"
                 THEN /\ single' = [pc |-> "rowid", own |-> r.id]
                      /\ Done("insert_chunk", "Pending", 0)
                 ELSE /\ single' = single
                      /\ Done("insert_chunk", "Ok", r.id)
  /\ UNCHANGED <<file, open, fk, batch>>
  /\ UNCHANGED <<opening, shared>>

\* Ok(self.conn.last_insert_rowid() as u64) of the call in flight
insert_chunk_last_insert_rowid ==
  /\ single.pc = "rowid"
  /\ single' = NoInsert
  /\ Done("insert_chunk", "Ok", rowid)
  /\ UNCHANGED <<file, store, open, fk, txn, batch, rowid>>
  /\ UNCHANGED <<opening, shared>>

\* a validation that looks at the first member only
validate_first(chunks) ==
  IF chunks = <<>> THEN "Ok" ELSE validate_embedding(chunks[1].embedding)

\* the validation loop of insert_chunks_batch: the first failure, or "Ok"
validate_all(chunks) ==
  IF \E i \in 1..Len(chunks) : validate_embedding(chunks[i].embedding) # "Ok"
  THEN LET i == CHOOSE i \in 1..Len(chunks) :
                  /\ validate_embedding(chunks[i].embedding) # "Ok"
                  /\ \A j \in 1..(i - 1) : validate_embedding(chunks[j].embedding) = "Ok"
       IN  validate_embedding(chunks[i].embedding)
  ELSE "Ok"

\* insert_chunks_batch up to conn.transaction(): BEGIN on the handle's connection
insert_chunks_batch(chunks, f) ==
  /\ MayCall
  /\ open
  /\ IF validate_all(chunks) # "Ok"
     THEN /\ Done("insert_chunks_batch", validate_all(chunks), None)
          /\ UNCHANGED <<txn, batch>>
     ELSE IF f = "begin" \/ txn # <<>>
     THEN /\ Done("insert_chunks_batch", "TransactionFailed", None)
          /\ UNCHANGED <<txn, batch>>
     ELSE /\ store.seq + Len(chunks) <= MaxRowId
          /\ txn' = <<store>>
          /\ batch' = [pc |-> "prepare", chunks |-> chunks, i |-> 1, ids |-> {},
                       pre |-> store.chunks]
          /\ Done("insert_chunks_batch", "Pending", None)
  /\ UNCHANGED <<file, store, open, fk>>
  /\ UNCHANGED <<opening, shared, rowid, single>>

\* tx.prepare(..); an error return drops tx, which rolls the transaction back
insert_chunks_batch_prepare(f) ==
  /\ batch.pc = "prepare"
  /\ IF f = "prepare" \/ "xkcd_chunks" \notin View.tables
     THEN /\ txn' = <<>>
          /\ batch' = Idle
          /\ Done("insert_chunks_batch", "PreparedFailed", None)
     ELSE /\ txn' = txn
          /\ batch' = [batch EXCEPT !.pc = IF Len(batch.chunks) = 0 THEN "commit" ELSE "execute"]
          /\ Done("insert_chunks_batch", "Pending", None)
  /\ UNCHANGED <<file, store, open, fk>>
  /\ UNCHANGED <<opening, shared, rowid, single>>

\* an insert loop whose error return leaves the transaction open
insert_chunks_batch_execute_no_rollback(f) ==
  /\ batch.pc = "execute"
  /\ LET r == SqlInsertChunk(View, batch.chunks[batch.i], fk)
     IN  IF f = "execute" \/ ~r.ok
         THEN /\ txn' = txn
              /\ batch' = Idle
              /\ rowid' = rowid
              /\ Done("insert_chunks_batch", "QueryFailed", None)
         ELSE /\ txn' = <<r.db>>
              /\ rowid' = LastInsertRowid(r.id)
              /\ batch' = [batch EXCEPT !.i = @ + 1,
                                        !.ids = @ \cup {r.id},
                                        !.pc = IF batch.i = Len(batch.chunks)
                                               THEN "commit" ELSE "execute"]
              /\ Done("insert_chunks_batch", "Pending", None)
  /\ UNCHANGED <<file, store, open, fk>>
  /\ UNCHANGED <<opening, shared, single>>

\* one turn of the insert loop: stmt.execute(..) of chunks[i]
insert_chunks_batch_execute(f) ==
  /\ batch.pc = "execute"
  /\ LET r == SqlInsertChunk(View, batch.chunks[batch.i], fk)
     IN  IF f = "execute" \/ ~r.ok
         THEN /\ txn' = <<>>
              /\ batch' = Idle
              /\ rowid' = rowid
              /\ Done("insert_chunks_batch", "QueryFailed", None)
         ELSE /\ txn' = <<r.db>>
              /\ rowid' = LastInsertRowid(r.id)
              /\ batch' = [batch EXCEPT !.i = @ + 1,
                                        !.ids = @ \cup {r.id},
                                        !.pc = IF batch.i = Len(batch.chunks)
                                               THEN "commit" ELSE "execute"]
              /\ Done("insert_chunks_batch", "Pending", None)
  /\ UNCHANGED <<file, store, open, fk>>
  /\ UNCHANGED <<opening, shared, single>>

\* tx.commit()
insert_chunks_batch_commit(f) ==
  /\ batch.pc = "commit"
  /\ IF f = "commit"
     THEN /\ store' = store
          /\ Done("insert_chunks_batch", "TransactionFailed", None)
     ELSE /\ store' = txn[1]
          /\ Done("insert_chunks_batch", "Ok", None)
  /\ txn' = <<>>
  /\ batch' = [Idle EXCEPT !.ids = batch.ids, !.pre = batch.pre]
  /\ UNCHANGED <<file, open, fk>>
  /\ UNCHANGED <<opening, shared, rowid, single>>

\* a stored row as get_chunks_for_comic decodes it
RowToChunk(r) ==
  [id |-> r.id,
   comic_number |-> r.comic_number,
   chunk_text |-> r.chunk_text,
   chunk_index |-> r.chunk_index,
   section_type |-> IF r.section_type = None THEN None ELSE SectionTypeFromStr(r.section_type),
   embedding |-> f32_blob_to_vec(r.embedding)]

\* the orders ORDER BY chunk_index ASC allows for the rows S
OrderByChunkIndex(S) ==
  {s \in [1..Cardinality(S) -> S] :
     /\ \A i, j \in 1..Cardinality(S) : i # j => s[i] # s[j]
     /\ \A i, j \in 1..Cardinality(S) : i < j => s[i].chunk_index <= s[j].chunk_index}

get_chunks_for_comic(comic_number, f) ==
  /\ MayCall
  /\ open
  /\ LET d == View
     IN  IF f = "prepare" \/ "xkcd_chunks" \notin d.tables
         THEN Done("get_chunks_for_comic", "PreparedFailed", <<>>)
         ELSE IF f = "execute"
         THEN Done("get_chunks_for_comic", "QueryFailed", <<>>)
         ELSE \E rows \in OrderByChunkIndex(ChunksOf(d, comic_number)) :
                IF \E i \in 1..Len(rows) : RowToChunk(rows[i]).section_type = "Err"
                THEN Done("get_chunks_for_comic", "Serialization", <<>>)
                ELSE Done("get_chunks_for_comic", "Ok", [i \in 1..Len(rows) |-> RowToChunk(rows[i])])
  /\ UNCHANGED <<file, store, open, fk, txn, batch>>
  /\ UNCHANGED <<opening, shared, rowid, single>>

delete_chunks_for_comic(comic_number, f) ==
  /\ MayCall
  /\ open
  /\ LET d == View
         r == SqlDeleteChunks(d, comic_number)
     IN  IF f = "prepare" \/ "xkcd_chunks" \notin d.tables
         THEN /\ Done("delete_chunks_for_comic", "PreparedFailed", 0)
              /\ UNCHANGED <<store, txn>>
         ELSE IF f = "execute"
         THEN /\ Done("delete_chunks_for_comic", "QueryFailed", 0)
              /\ UNCHANGED <<store, txn>>
         ELSE /\ Write(r.db)
              /\ Done("delete_chunks_for_comic", "Ok", r.rows)
  /\ UNCHANGED <<file, open, fk, batch>>
  /\ UNCHANGED <<opening, shared, rowid, single>>

TopKs == {1, 2}

\* one row of the search: the chunk joined with the comic that owns it
SearchRow(r, c) ==
  [chunk_id |-> r.id,
   comic_number |-> r.comic_number,
   chunk_text |-> r.chunk_text,
   section_type |-> r.section_type,
   comic_title |-> c.title,
   xkcd_url |-> c.xkcd_url,
   hover_text |-> c.hover_text]

\* the engine's vector_top_k: some top_k of the indexed rows (all, if fewer)
VectorTopK(d, top_k) ==
  {H \in SUBSET d.chunks :
     Cardinality(H) = IF Cardinality(d.chunks) < top_k THEN Cardinality(d.chunks) ELSE top_k}

vector_search(query_embedding, top_k, f) ==
  /\ MayCall
  /\ open
  /\ LET d == View
     IN  IF validate_embedding(query_embedding) # "Ok"
         THEN Done("vector_search", validate_embedding(query_embedding), {})
         ELSE IF f = "prepare" \/ ~({"xkcd_chunks", "xkcd_comics", "chunks_vec_idx"} \subseteq d.tables)
         THEN Done("vector_search", "PreparedFailed", {})
         ELSE IF f = "execute"
         THEN Done("vector_search", "QueryFailed", {})
         ELSE \E H \in VectorTopK(d, top_k) :
                Done("vector_search", "Ok", UNION {{SearchRow(r, c) : c \in {x \in d.comics : x.comic_number = r.comic_number}} :
                            r \in H})
  /\ UNCHANGED <<file, store, open, fk, txn, batch>>
  /\ UNCHANGED <<opening, shared, rowid, single>>

(***************************************************************************)
(* The system                                                              *)
(***************************************************************************)
Init ==
  /\ file \in BOOLEAN
  /\ store = EmptyStore
  /\ open = FALSE
  /\ fk = FALSE
  /\ txn = <<>>
  /\ batch = Idle
  /\ rowid = 0
  /\ single = NoInsert
  /\ last = [op |-> "none", result |-> "Ok"]
  /\ returned = None
  /\ shared = FALSE
  /\ opening = NoOpening

\* opening the path (the engine may fail any step of it) and dropping the handle
OpenCalls ==
  \/ \E f \in {"none", "build", "pragma", "prepare", "execute"} : new(f, 1)
  \/ \E k \in 1..Len(SchemaStatements) : new("schema", k)
  \/ drop

\* the calls a caller makes on the handle, when the engine does what it is asked
Calls ==
  \/ \E key \in MetaKeys : get_metadata(key, "none")
  \/ \E key \in MetaKeys, value \in MetaValues : set_metadata(key, value, "none")
  \/ \E comic \in ComicInputs : insert_comic(comic, "none")
  \/ \E n \in UpdateNumbers :
       update_comic(n, UpdateInput.last_revision_id, UpdateInput.last_revision_timestamp,
                    UpdateInput.updated_at, "none")
  \/ \E n \in ComicNumbers : delete_comic(n, "none")
  \/ \E chunk \in ChunkInputs : insert_chunk(chunk, "none")
  \/ \E chunks \in BatchInputs : insert_chunks_batch(chunks, "none")
  \/ \E n \in ComicNumbers : get_chunks_for_comic(n, "none")
  \/ \E n \in ComicNumbers : delete_chunks_for_comic(n, "none")
  \/ \E k \in TopKs : vector_search(Vec("0.5", EMBEDDING_DIM), k, "none")
  \/ \E q \in Embeddings : vector_search(q, 1, "none")

\* the same calls when an engine call fails (one input each)
FaultyCalls ==
  \/ \E f \in EngineFaults :
       \/ get_metadata("INITIALIZED", f)
       \/ set_metadata("INITIALIZED", "true", f)
       \/ insert_comic(make_comic(1, "H"), f)
       \/ update_comic(1, UpdateInput.last_revision_id, UpdateInput.last_revision_timestamp,
                       UpdateInput.updated_at, f)
       \/ delete_comic(1, f)
       \/ get_max_comic_number(f)
       \/ get_comics_batch(<<1>>, f)
       \/ get_comics_needing_update([sec |-> 0, millis |-> 0], f)
       \/ insert_chunk(make_chunk(1, 0, Vec("0.5", EMBEDDING_DIM)), f)
       \/ get_chunks_for_comic(1, f)
       \/ delete_chunks_for_comic(1, f)
       \/ vector_search(Vec("0.5", EMBEDDING_DIM), 1, f)
  \/ insert_chunks_batch(<<make_chunk(1, 0, Vec("0.5", EMBEDDING_DIM))>>, "begin")

\* the steps by which a batch call in flight goes on to its return
BatchSteps ==
  \/ \E f \in {"none", "prepare"} : insert_chunks_batch_prepare(f)
  \/ \E f \in {"none", "execute"} : insert_chunks_batch_execute(f)
  \/ \E f \in {"none", "commit"} : insert_chunks_batch_commit(f)

\* one caller: a call is made when the call before it has returned
Next ==
  \/ OpenCalls
  \/ Calls
  \/ BatchSteps

Spec == Init /\ [][Next]_vars

\* callers that share the handle: a call may start, and return, while a batch
\* call is in flight
SharedCalls ==
  \/ insert_comic(make_comic(1, "H"), "none")
  \/ update_comic(1, UpdateInput.last_revision_id, UpdateInput.last_revision_timestamp,
                  UpdateInput.updated_at, "none")
  \/ delete_comic(1, "none")
  \/ \E n \in ComicNumbers : insert_chunk(make_chunk(n, 0, Vec("0.5", EMBEDDING_DIM)), "none")
  \/ \E chunks \in SeqsUpTo({make_chunk(1, 0, Vec("0.5", EMBEDDING_DIM))}, MaxBatchLen) :
       insert_chunks_batch(chunks, "none")
  \/ \E n \in ComicNumbers : get_chunks_for_comic(n, "none")
  \/ delete_chunks_for_comic(1, "none")
  \/ vector_search(Vec("0.5", EMBEDDING_DIM), 1, "none")

NextShared ==
  \/ new("none", 1)
  \/ drop
  \/ SharedCalls
  \/ insert_chunk_last_insert_rowid
  \/ BatchSteps

InitShared ==
  /\ file \in BOOLEAN
  /\ store = EmptyStore
  /\ open = FALSE
  /\ fk = FALSE
  /\ txn = <<>>
  /\ batch = Idle
  /\ rowid = 0
  /\ single = NoInsert
  /\ last = [op |-> "none", result |-> "Ok"]
  /\ returned = None
  /\ shared = TRUE
  /\ opening = NoOpening

SpecShared == InitShared /\ [][NextShared]_vars

\* one caller, and an engine that may fail any call
NextFaulty ==
  \/ Next
  \/ FaultyCalls

SpecFaulty == Init /\ [][NextFaulty]_vars


\* one caller that fills and empties the chunk table: chunks of either comic
\* at either of two chunk indexes, inserted in any order
SortIndexes == {0, 1}

ChunkCalls ==
  \/ \E comic \in ComicInputs : insert_comic(comic, "none")
  \/ \E n \in ComicNumbers, i \in SortIndexes :
       insert_chunk(make_chunk(n, i, Vec("0.5", EMBEDDING_DIM)), "none")
  \/ \E n \in ComicNumbers : get_chunks_for_comic(n, "none")
  \/ \E n \in ComicNumbers : delete_chunks_for_comic(n, "none")

NextChunks ==
  \/ new("none", 1)
  \/ drop
  \/ ChunkCalls

SpecChunks == Init /\ [][NextChunks]_vars


\* one caller of the comic repository
ComicCalls ==
  \/ \E comic \in ComicInputs : insert_comic(comic, "none")
  \/ \E n \in ComicNumbers :
       update_comic(n, UpdateInput.last_revision_id, UpdateInput.last_revision_timestamp,
                    UpdateInput.updated_at, "none")
  \/ \E n \in ComicNumbers : delete_comic(n, "none")
  \/ get_max_comic_number("none")
  \/ \E comic_numbers \in NumberLists : get_comics_batch(comic_numbers, "none")

NextComics ==
  \/ new("none", 1)
  \/ drop
  \/ ComicCalls

SpecComics == Init /\ [][NextComics]_vars


\* one caller that stores comics updated at given instants and asks for the
\* ones updated before a cutoff
UpdatedCalls ==
  \/ \E comic \in UpdatedComicInputs : insert_comic(comic, "none")
  \/ \E n \in ComicNumbers : delete_comic(n, "none")
  \/ \E older_than \in Instants : get_comics_needing_update(older_than, "none")

NextUpdated ==
  \/ new("none", 1)
  \/ drop
  \/ UpdatedCalls

SpecUpdated == Init /\ [][NextUpdated]_vars


\* one caller that stores chunks of comic 1 with the embeddings and the
\* section types of the round-trip tests and reads them back
RoundTripEmbeddings ==
  {Vec("0.5", EMBEDDING_DIM), Vec("1.0", EMBEDDING_DIM),
   Cycle(<<"0.123", "0.456", "0.789">>, EMBEDDING_DIM)}

\* make_chunk with its embedding replaced, or with its section type replaced
RoundTripChunks ==
  {make_chunk(1, 0, e) : e \in RoundTripEmbeddings}
    \cup {[make_chunk(1, 0, Vec("0.5", EMBEDDING_DIM)) EXCEPT !.section_type = st] :
            st \in SectionTypes \cup {None}}

RoundTripCalls ==
  \/ insert_comic(make_comic(1, "H"), "none")
  \/ \E chunk \in RoundTripChunks : insert_chunk(chunk, "none")
  \/ get_chunks_for_comic(1, "none")
  \/ delete_chunks_for_comic(1, "none")

NextRoundTrip ==
  \/ new("none", 1)
  \/ drop
  \/ RoundTripCalls

SpecRoundTrip == Init /\ [][NextRoundTrip]_vars


\* one caller that stores comics and inserts chunks in batches, the engine
\* failing any step of a batch
BatchCalls ==
  \/ \E comic \in ComicInputs : insert_comic(comic, "none")
  \/ \E chunks \in BatchInputs : insert_chunks_batch(chunks, "none")
  \/ insert_chunks_batch(<<make_chunk(1, 0, Vec("0.5", EMBEDDING_DIM))>>, "begin")
  \/ \E n \in ComicNumbers : delete_chunks_for_comic(n, "none")

NextBatch ==
  \/ new("none", 1)
  \/ drop
  \/ BatchCalls
  \/ BatchSteps

SpecBatch == Init /\ [][NextBatch]_vars


\* one caller that stores comics and chunks of them and records revisions
ReviseCalls ==
  \/ \E comic \in ComicInputs : insert_comic(comic, "none")
  \/ \E n \in ComicNumbers : insert_chunk(make_chunk(n, 0, Vec("0.5", EMBEDDING_DIM)), "none")
  \/ \E n \in ComicNumbers :
       update_comic(n, UpdateInput.last_revision_id, UpdateInput.last_revision_timestamp,
                    UpdateInput.updated_at, "none")

NextRevise ==
  \/ new("none", 1)
  \/ drop
  \/ ReviseCalls

SpecRevise == Init /\ [][NextRevise]_vars


\* the callers of Database::new on one path, each taking its call step by step
NextOpenRace ==
  \/ \E i \in Openers : new_metadata_is_ok(i)
  \/ \E i \in Openers : \E f \in NewFaults(TRUE) : new_open_existing(i, f)
  \/ \E i \in Openers : init_metadata_is_ok(i)
  \/ \E i \in Openers : \E f \in {"none", "build"} : init_build(i, f)
  \/ \E i \in Openers : \E f \in {"none", "pragma"} : init_pragma(i, f)
  \/ \E i \in Openers : \E failAt \in 0..Len(SchemaStatements) : init_create_tables(i, failAt)
  \/ \E i \in Openers : new_returned(i)

SpecOpenRace == Init /\ [][NextOpenRace]_vars


\* one caller of the metadata store, with keys that init does not write
AllMetaKeys == {"INITIALIZED", "LAST_SCRAPE", "SCHEMA_VERSION"}
AllMetaValues == MetaValues \cup {"2025-01-27T00:00:00Z"}

MetaCalls ==
  \/ \E key \in AllMetaKeys : get_metadata(key, "none")
  \/ \E key \in AllMetaKeys, value \in AllMetaValues : set_metadata(key, value, "none")

NextMeta ==
  \/ new("none", 1)
  \/ drop
  \/ MetaCalls

SpecMeta == Init /\ [][NextMeta]_vars


(***************************************************************************)
(* Properties                                                              *)
(***************************************************************************)
OpenFaults == {"none", "build", "pragma", "prepare", "execute"}

WrongLength(embedding) == embedding.len # EMBEDDING_DIM

BadEmbeddings == {e \in Embeddings : WrongLength(e)}
BadChunkInputs == {chunk \in ChunkInputs : WrongLength(chunk.embedding)}
BadBatchInputs ==
  {chunks \in BatchInputs : \E i \in 1..Len(chunks) : WrongLength(chunks[i].embedding)}

\* the batch has a member that is invalid in the content d
HasInvalid(chunks, d) ==
  \E i \in 1..Len(chunks) :
    WrongLength(chunks[i].embedding) \/ ~ComicExists(d, chunks[i].comic_number)

MarkerIsTrue(d) == \E r \in d.metadata : r.key = "INITIALIZED" /\ r.value = "true"

\* C1: a batch call whose list has an invalid member (an embedding of wrong
\* length, or a comic_number that is not stored) returns an error, and the
\* persisted chunks are then what they were when it was called.
C1_BatchAllOrNothing ==
  [][/\ \A chunks \in BatchInputs :
          (HasInvalid(chunks, store) /\ last'.op = "insert_chunks_batch"
             /\ insert_chunks_batch(chunks, "none") /\ last'.result # "Pending")
            => (last'.result # "Ok" /\ store'.chunks = store.chunks)
     /\ (batch.pc # "idle" /\ batch'.pc = "idle" /\ HasInvalid(batch.chunks, store))
          => (last'.result # "Ok" /\ store'.chunks = batch.pre)]_vars

\* C2: insert_chunk of a chunk, vector_search of a query and insert_chunks_batch
\* of a list with an embedding of wrong length return InvalidEmbeddingDimension
\* and leave the artifact, its content and the open transaction as they were.
C2_WrongDimensionRejected ==
  [][/\ last'.op = "insert_chunk"
          => \A chunk \in BadChunkInputs :
               insert_chunk(chunk, "none")
                 => (last'.result = "InvalidEmbeddingDimension" /\ UNCHANGED <<file, store, txn>>)
     /\ last'.op = "vector_search"
          => \A q \in BadEmbeddings, k \in TopKs :
               vector_search(q, k, "none")
                 => (last'.result = "InvalidEmbeddingDimension" /\ UNCHANGED <<file, store, txn>>)
     /\ last'.op = "insert_chunks_batch"
          => \A chunks \in BadBatchInputs :
               insert_chunks_batch(chunks, "none")
                 => (last'.result = "InvalidEmbeddingDimension" /\ UNCHANGED <<file, store, txn>>)]_vars

\* a batch with a bad member was refused while chunks were stored
C2_Witness ==
  /\ last.op = "insert_chunks_batch"
  /\ last.result = "InvalidEmbeddingDimension"
  /\ store.chunks # {}

\* C3: a get_chunks_for_comic that returns while a batch call is in flight on
\* the same handle returns none of the chunks that batch has inserted.
C3_NoPartialBatchObserved ==
  (batch.pc # "idle" /\ last.op = "get_chunks_for_comic" /\ last.result = "Ok")
    => \A i \in 1..Len(returned) : returned[i].id \notin batch.ids

\* C4: every persisted chunk's comic_number is that of a persisted comic.
C4_ReferentialIntegrity ==
  \A r \in store.chunks : ComicExists(store, r.comic_number)

\* C5: the connection of every handle Database::new has returned enforces
\* foreign keys.
C5_ForeignKeysOn == open => fk

\* C6: when delete_comic(n) returns Ok, comic n and every chunk of comic n are
\* gone, and the other comics and their chunks are as before.
C6_DeleteCascades ==
  [][\A n \in ComicNumbers :
       (last'.op = "delete_comic" /\ delete_comic(n, "none") /\ last'.result = "Ok")
         => /\ ~ComicExists(View', n)
            /\ ChunksOf(View', n) = {}
            /\ View'.comics = {c \in View.comics : c.comic_number # n}
            /\ View'.chunks = {r \in View.chunks : r.comic_number # n}]_vars

\* C7: Database::new on a path with no artifact, the engine failing nothing,
\* creates the schema, stores INITIALIZED = "true" and returns a handle;
\* get_metadata("INITIALIZED") then gives "true", and opening the path again
\* succeeds.
C7_FreshOpenInitializes ==
  [][(~file /\ last'.op = "new" /\ new("none", 1))
       => /\ last'.result = "Ready"
          /\ open' /\ file'
          /\ AllTables \subseteq store'.tables
          /\ get_metadata_on(store', "INITIALIZED", "none") = [result |-> "Ok", value |-> "true"]
          /\ open_existing(store', "none").result = "Ready"]_vars

\* a fresh path was opened and the handle returned
C7_Witness ==
  /\ last.op = "new" /\ returned = "fresh" /\ last.result = "Ready"
  /\ open /\ MarkerIsTrue(store)

\* C8: Database::new on an artifact whose INITIALIZED marker is absent or is
\* not "true" returns InitializationError, returns no handle and leaves the
\* artifact's content as it was.
C8_UninitializedRejected ==
  [][(file /\ ~MarkerIsTrue(store) /\ last'.op = "new" /\ new("none", 1))
       => (last'.result = "InitializationError" /\ ~open' /\ UNCHANGED store)]_vars

\* C9: Database::new on an artifact whose INITIALIZED marker is "true", the
\* engine failing nothing, returns a handle and leaves the artifact's tables,
\* comics, chunks and metadata as they were.
C9_ReopenIsNoOp ==
  [][(file /\ MarkerIsTrue(store) /\ last'.op = "new" /\ new("none", 1))
       => (last'.result = "Ready" /\ open' /\ UNCHANGED <<file, store>>)]_vars

\* an artifact that holds a comic was opened again
C9_Witness ==
  /\ last.op = "new" /\ returned = "existing" /\ last.result = "Ready"
  /\ store.comics # {}

\* the artifact is what a create_tables that failed at some statement leaves
HalfInitialized ==
  /\ file /\ ~open
  /\ \E k \in 0..(Len(SchemaStatements) - 1) : store = ExecSchema(EmptyStore, k)

\* C10: once create_tables has failed, the artifact is removed or every later
\* Database::new on the path returns InitializationError; none returns a handle.
C10_FailedInitNotUsable ==
  [][\A f \in OpenFaults :
       (HalfInitialized /\ last'.op = "new" /\ new(f, 1))
         => (~file' \/ (last'.result = "InitializationError" /\ ~open'))]_vars

\* the chunks whose embedding has the right length
GoodChunkInputs == {chunk \in ChunkInputs : ~WrongLength(chunk.embedding)}

\* C11: insert_chunk of a chunk with an embedding of the right length fails and
\* writes no chunk when its comic_number is not stored; when the comic is
\* stored it returns Ok with the id of the one chunk row it has added.
C11_InsertChunkNeedsComic ==
  [][last'.op = "insert_chunk"
       => \A chunk \in GoodChunkInputs :
            insert_chunk(chunk, "none")
              => IF ComicExists(View, chunk.comic_number)
                 THEN /\ last'.result = "Ok"
                      /\ \E r \in View'.chunks :
                           /\ r \notin View.chunks
                           /\ View'.chunks = View.chunks \cup {r}
                           /\ r.comic_number = chunk.comic_number
                           /\ r.id = returned'
                 ELSE /\ last'.result # "Ok"
                      /\ View'.chunks = View.chunks]_vars

\* no two stored comics have the same comic_number
ComicNumberUnique(d) ==
  \A c1, c2 \in d.comics : c1.comic_number = c2.comic_number => c1 = c2

\* C12: in every state at most one comic is stored for a comic_number, and
\* insert_comic with a comic_number that is stored fails and leaves the stored
\* comics and chunks as they were.
C12_ComicNumberUnique ==
  /\ [](ComicNumberUnique(store) /\ ComicNumberUnique(View))
  /\ [][last'.op = "insert_comic"
          => \A comic \in ComicInputs :
               (ComicExists(View, comic.comic_number) /\ insert_comic(comic, "none"))
                 => (last'.result # "Ok" /\ UNCHANGED <<store, txn>>)]_vars

\* insert_comic was refused for a comic_number whose stored comic, updated
\* since its insert, differs from the one offered, and which owns a chunk
C12_Witness ==
  /\ last.op = "insert_comic" /\ last.result = "QueryFailed"
  /\ \E c \in store.comics : c.comic_number = 1 /\ c.last_revision_id = UpdateInput.last_revision_id
  /\ ChunksOf(store, 1) # {}

\* C13: insert_comic of a comic_number that is stored returns
\* ComicAlreadyExists, and an insert_chunk or a batch insert that the engine
\* refuses for a comic_number that is not stored returns ConstraintViolation.
C13_ConflictKinds ==
  [][/\ last'.op = "insert_comic"
          => \A comic \in ComicInputs :
               (ComicExists(View, comic.comic_number) /\ insert_comic(comic, "none"))
                 => last'.result = "ComicAlreadyExists"
     /\ last'.op = "insert_chunk"
          => \A chunk \in GoodChunkInputs :
               (~ComicExists(View, chunk.comic_number) /\ insert_chunk(chunk, "none")
                  /\ last'.result # "Ok")
                 => last'.result = "ConstraintViolation"
     /\ (batch.pc = "execute" /\ insert_chunks_batch_execute("none")
           /\ ~ComicExists(View, batch.chunks[batch.i].comic_number)
           /\ last'.result # "Pending")
          => last'.result = "ConstraintViolation"]_vars

\* C14: update_comic and delete_comic of a comic_number that is not stored
\* return the not-found error ComicNotFound and leave the content as it was.
C14_AbsentComicNotFound ==
  [][/\ last'.op = "update_comic"
          => \A n \in UpdateNumbers :
               (~ComicExists(View, n)
                  /\ update_comic(n, UpdateInput.last_revision_id,
                                  UpdateInput.last_revision_timestamp,
                                  UpdateInput.updated_at, "none"))
                 => (last'.result = "ComicNotFound" /\ UNCHANGED <<store, txn>>)
     /\ last'.op = "delete_comic"
          => \A n \in ComicNumbers :
               (~ComicExists(View, n) /\ delete_comic(n, "none"))
                 => (last'.result = "ComicNotFound" /\ UNCHANGED <<store, txn>>)]_vars

\* C15: get_chunks_for_comic(n) returns Ok with exactly the stored chunks of
\* comic n, each once, in ascending chunk_index; the sequence is empty when
\* comic n is not stored or has no chunk.
C15_ChunksOfComicSorted ==
  [][last'.op = "get_chunks_for_comic"
       => \A n \in ComicNumbers :
            get_chunks_for_comic(n, "none")
              => /\ last'.result = "Ok"
                 /\ Len(returned') = Cardinality(ChunksOf(View, n))
                 /\ {returned'[i].id : i \in 1..Len(returned')} = {r.id : r \in ChunksOf(View, n)}
                 /\ \A i \in 1..Len(returned') : returned'[i].comic_number = n
                 /\ \A i, j \in 1..Len(returned') :
                      i < j => returned'[i].chunk_index <= returned'[j].chunk_index
                 /\ (~ComicExists(View, n) \/ ChunksOf(View, n) = {}) => returned' = <<>>
                 /\ UNCHANGED <<store, txn>>]_vars

\* C17: delete_chunks_for_comic(n) returns Ok with the number of chunks of
\* comic n, which it removes; the number is 0 when comic n is not stored or
\* has no chunk; the comics and the chunks of other comics stay as they were.
C17_DeleteChunksOfComic ==
  [][last'.op = "delete_chunks_for_comic"
       => \A n \in ComicNumbers :
            delete_chunks_for_comic(n, "none")
              => /\ last'.result = "Ok"
                 /\ returned' = Cardinality(ChunksOf(View, n))
                 /\ (~ComicExists(View, n) \/ ChunksOf(View, n) = {}) => returned' = 0
                 /\ View'.chunks = {r \in View.chunks : r.comic_number # n}
                 /\ View'.comics = View.comics
                 /\ View'.metadata = View.metadata]_vars

\* C16: get_comics_batch(numbers) returns Ok with exactly the stored comics
\* whose comic_number is in numbers, each once, in ascending comic_number (so
\* the same for every order of numbers and any repeats in it); the empty list
\* gives the empty sequence.
C16_ComicsBatchAscending ==
  [][last'.op = "get_comics_batch"
       => \A comic_numbers \in NumberLists :
            get_comics_batch(comic_numbers, "none")
              => /\ last'.result = "Ok"
                 /\ {returned'[i] : i \in 1..Len(returned')}
                      = {c \in View.comics :
                           \E k \in 1..Len(comic_numbers) : comic_numbers[k] = c.comic_number}
                 /\ \A i, j \in 1..Len(returned') :
                      i < j => returned'[i].comic_number < returned'[j].comic_number
                 /\ comic_numbers = <<>> => returned' = <<>>
                 /\ UNCHANGED <<store, txn>>]_vars

\* C20: get_max_comic_number returns the largest stored comic_number when a
\* comic is stored and NoComicsFound when none is, whatever was inserted and
\* deleted before.
C20_MaxComicNumber ==
  [][(last'.op = "get_max_comic_number" /\ get_max_comic_number("none"))
       => /\ IF View.comics = {}
             THEN last'.result = "NoComicsFound"
             ELSE /\ last'.result = "Ok"
                  /\ ComicExists(View, returned')
                  /\ \A c \in View.comics : c.comic_number <= returned'
          /\ UNCHANGED <<store, txn>>]_vars

\* the largest of two stored comic numbers was returned
C20_Witness ==
  /\ last.op = "get_max_comic_number" /\ last.result = "Ok"
  /\ returned = 2
  /\ Cardinality(store.comics) = 2

\* C18: set_metadata(k, v) returns Ok and leaves exactly one row for k, with
\* value v, whether or not k had a row; get_metadata(k) then gives v; a second
\* set_metadata(k, v) would change nothing; the rows of other keys, the comics
\* and the chunks stay as they were.
C18_SetMetadataUpsert ==
  [][last'.op = "set_metadata"
       => \A key \in AllMetaKeys, value \in AllMetaValues :
            set_metadata(key, value, "none")
              => /\ last'.result = "Ok"
                 /\ MetaRows(View', key) = {[key |-> key, value |-> value]}
                 /\ get_metadata_on(View', key, "none") = [result |-> "Ok", value |-> value]
                 /\ Upsert(View'.metadata, key, value) = View'.metadata
                 /\ {r \in View'.metadata : r.key # key} = {r \in View.metadata : r.key # key}
                 /\ View'.comics = View.comics
                 /\ View'.chunks = View.chunks]_vars

\* the marker, which had a row, was overwritten while another key had a row
C18_Witness ==
  /\ last.op = "set_metadata" /\ last.result = "Ok" /\ returned = "false"
  /\ MetaRows(store, "INITIALIZED") = {[key |-> "INITIALIZED", value |-> "false"]}
  /\ MetaRows(store, "LAST_SCRAPE") # {}

\* C19: get_metadata(k) returns MetadataNotFound exactly when k has no row,
\* and otherwise Ok with the value of k's row; it never returns QueryFailed
\* for a missing row, and it changes nothing.
C19_MetadataNotFound ==
  [][last'.op = "get_metadata"
       => \A key \in AllMetaKeys :
            get_metadata(key, "none")
              => /\ (last'.result = "MetadataNotFound") <=> (MetaRows(View, key) = {})
                 /\ MetaRows(View, key) # {}
                      => /\ last'.result = "Ok"
                         /\ [key |-> key, value |-> returned'] \in View.metadata
                 /\ last'.result # "QueryFailed"
                 /\ UNCHANGED <<store, txn>>]_vars

\* a key with no row was asked for
C19_Witness ==
  /\ last.op = "get_metadata" /\ last.result = "MetadataNotFound"
  /\ open /\ MetaRows(store, "LAST_SCRAPE") = {}

\* C21: get_comics_needing_update(cutoff) returns Ok with exactly the stored
\* comics whose updated_at is an instant strictly before the cutoff, each
\* once, for every stored "...Z" text and every cutoff, and changes nothing.
C21_UpdatedBeforeCutoff ==
  [][last'.op = "get_comics_needing_update"
       => \A older_than \in Instants :
            get_comics_needing_update(older_than, "none")
              => /\ last'.result = "Ok"
                 /\ {returned'[i] : i \in 1..Len(returned')}
                      = {c \in View.comics : Before(InstantOf(c.updated_at), older_than)}
                 /\ \A i, j \in 1..Len(returned') : i # j => returned'[i] # returned'[j]
                 /\ UNCHANGED <<store, txn>>]_vars

\* the query of the tests: an embedding of the right length
GoodQuery == Vec("0.5", EMBEDDING_DIM)

\* C22: vector_search(q, top_k) with q of the right length returns Ok with at
\* most top_k results; each result is a stored chunk, no chunk twice, with the
\* comic_number of the chunk and the title, xkcd_url and hover_text of the
\* stored comic of that number; when at most top_k chunks are stored, every
\* stored chunk is in the result.
C22_VectorSearchResults ==
  [][last'.op = "vector_search"
       => \A top_k \in TopKs :
            vector_search(GoodQuery, top_k, "none")
              => /\ last'.result = "Ok"
                 /\ Cardinality(returned') <= top_k
                 /\ \A x, y \in returned' : x.chunk_id = y.chunk_id => x = y
                 /\ \A x \in returned' :
                      \E r \in View.chunks, c \in View.comics :
                        /\ r.id = x.chunk_id
                        /\ r.comic_number = x.comic_number
                        /\ c.comic_number = r.comic_number
                        /\ x.comic_title = c.title
                        /\ x.xkcd_url = c.xkcd_url
                        /\ x.hover_text = c.hover_text
                 /\ Cardinality(View.chunks) <= top_k
                      => {x.chunk_id : x \in returned'} = {r.id : r \in View.chunks}]_vars

\* C24: the chunk row insert_chunk has stored for an embedding e of the right
\* length decodes, as get_chunks_for_comic decodes it, to an embedding of the
\* length of e with the components of e in their order; and every embedding
\* get_chunks_for_comic returns is the decoding of the stored row of that id.
C24_EmbeddingRoundTrip ==
  [][/\ last'.op = "insert_chunk"
          => \A chunk \in RoundTripChunks :
               (insert_chunk(chunk, "none") /\ last'.result = "Ok")
                 => \E r \in View'.chunks :
                      /\ r.id = returned'
                      /\ r.embedding.bytes = 4 * chunk.embedding.len
                      /\ RowToChunk(r).embedding.len = chunk.embedding.len
                      /\ RowToChunk(r).embedding.fill = chunk.embedding.fill
     /\ last'.op = "get_chunks_for_comic"
          => ((get_chunks_for_comic(1, "none") /\ last'.result = "Ok")
               => \A i \in 1..Len(returned') :
                    /\ returned'[i].embedding \in RoundTripEmbeddings
                    /\ \E r \in View.chunks :
                         /\ r.id = returned'[i].id
                         /\ returned'[i].embedding.len * 4 = r.embedding.bytes
                         /\ vector32(vec_to_json_string(returned'[i].embedding)) = r.embedding)]_vars

\* the embedding of three repeating components was read back
C24_Witness ==
  /\ last.op = "get_chunks_for_comic" /\ last.result = "Ok"
  /\ \E i \in 1..Len(returned) :
       returned[i].embedding = Cycle(<<"0.123", "0.456", "0.789">>, EMBEDDING_DIM)

\* C25: the text insert_chunk writes for a section type parses back to that
\* section type, and a chunk inserted with one of the five section types or
\* with None is stored, and read back by get_chunks_for_comic, with the same.
C25_SectionTypeRoundTrip ==
  [][/\ last'.op = "insert_chunk"
          => \A chunk \in RoundTripChunks :
               (insert_chunk(chunk, "none") /\ last'.result = "Ok")
                 => \E r \in View'.chunks :
                      /\ r.id = returned'
                      /\ RowToChunk(r).section_type = chunk.section_type
                      /\ chunk.section_type # None
                           => /\ r.section_type = SectionTypeToString(chunk.section_type)
                              /\ SectionTypeFromStr(r.section_type) = chunk.section_type
     /\ last'.op = "get_chunks_for_comic"
          => (get_chunks_for_comic(1, "none")
                => /\ last'.result = "Ok"
                   /\ \A i \in 1..Len(returned') :
                        /\ returned'[i].section_type \in SectionTypes \cup {None}
                        /\ \E r \in View.chunks :
                             /\ r.id = returned'[i].id
                             /\ r.section_type =
                                  IF returned'[i].section_type = None THEN None
                                  ELSE SectionTypeToString(returned'[i].section_type))]_vars

\* a chunk with section type TitleHover and one with none were read back
C25_Witness ==
  /\ last.op = "get_chunks_for_comic" /\ last.result = "Ok"
  /\ \E i, j \in 1..Len(returned) :
       returned[i].section_type = "TitleHover" /\ returned[j].section_type = None

\* the error kind that names the stage of an engine failure
StageKind(f) ==
  CASE f = "prepare" -> "PreparedFailed"
    [] f = "execute" -> "QueryFailed"
    [] f \in {"begin", "commit"} -> "TransactionFailed"

\* C26: in every operation of an open handle, an engine failure while a
\* statement is prepared is returned as PreparedFailed, one while it is
\* executed or queried as QueryFailed, and one at the begin or the commit of
\* the batch's transaction as TransactionFailed.
C26_ErrorsKeepStage ==
  [][/\ \A f \in EngineFaults :
          /\ last'.op = "get_metadata"
               => (get_metadata("INITIALIZED", f) => last'.result = StageKind(f))
          /\ last'.op = "set_metadata"
               => (set_metadata("INITIALIZED", "true", f) => last'.result = StageKind(f))
          /\ last'.op = "insert_comic"
               => (insert_comic(make_comic(1, "H"), f) => last'.result = StageKind(f))
          /\ last'.op = "update_comic"
               => (update_comic(1, UpdateInput.last_revision_id,
                                UpdateInput.last_revision_timestamp,
                                UpdateInput.updated_at, f)
                     => last'.result = StageKind(f))
          /\ last'.op = "delete_comic"
               => (delete_comic(1, f) => last'.result = StageKind(f))
          /\ last'.op = "get_max_comic_number"
               => (get_max_comic_number(f) => last'.result = StageKind(f))
          /\ last'.op = "get_comics_batch"
               => (get_comics_batch(<<1>>, f) => last'.result = StageKind(f))
          /\ last'.op = "get_comics_needing_update"
               => (get_comics_needing_update([sec |-> 0, millis |-> 0], f)
                     => last'.result = StageKind(f))
          /\ last'.op = "insert_chunk"
               => (insert_chunk(make_chunk(1, 0, GoodQuery), f) => last'.result = StageKind(f))
          /\ last'.op = "get_chunks_for_comic"
               => (get_chunks_for_comic(1, f) => last'.result = StageKind(f))
          /\ last'.op = "delete_chunks_for_comic"
               => (delete_chunks_for_comic(1, f) => last'.result = StageKind(f))
          /\ last'.op = "vector_search"
               => (vector_search(GoodQuery, 1, f) => last'.result = StageKind(f))
     /\ last'.op = "insert_chunks_batch"
          => /\ insert_chunks_batch(<<make_chunk(1, 0, GoodQuery)>>, "begin")
                  => last'.result = StageKind("begin")
             /\ insert_chunks_batch_prepare("prepare") => last'.result = StageKind("prepare")
             /\ insert_chunks_batch_execute("execute") => last'.result = StageKind("execute")
             /\ insert_chunks_batch_commit("commit") => last'.result = StageKind("commit")]_vars

\* C27: insert_chunks_batch of a list with a member of wrong length, at any
\* place of the list, returns InvalidEmbeddingDimension at once: no transaction
\* is begun, the call goes on to no prepare, execute or commit, and the
\* content is as it was; also when the engine would refuse the begin.
C27_BatchValidatesFirst ==
  [][last'.op = "insert_chunks_batch"
       => \A chunks \in BadBatchInputs, f \in {"none", "begin"} :
            insert_chunks_batch(chunks, f)
              => /\ last'.result = "InvalidEmbeddingDimension"
                 /\ txn' = <<>> /\ txn = <<>>
                 /\ batch'.pc = "idle" /\ batch' = batch
                 /\ store' = store]_vars

\* a batch was refused for its length check when its comic was stored, so
\* that its valid members could have been inserted
C27_Witness ==
  /\ last.op = "insert_chunks_batch" /\ last.result = "InvalidEmbeddingDimension"
  /\ open /\ fk /\ ComicExists(store, 1)
  /\ batch.pc = "idle" /\ txn = <<>>

\* C28: a batch call that has passed validation begins one transaction, at
\* its start; prepares once, before any execute, and never again; each
\* execute that succeeds adds the row of the next chunk of the list; the call
\* comes to its commit only when every chunk has been executed; and it
\* returns with no transaction open: the content is then that of the
\* transaction when it returns Ok, having committed, and the content from
\* before the call otherwise.
C28_OneTransactionOneStatement ==
  [][/\ (batch.pc = "idle" /\ batch'.pc # "idle")
          => /\ txn = <<>> /\ txn' = <<store>>
             /\ batch'.pc = "prepare" /\ batch'.i = 1
             /\ store' = store
     /\ batch'.pc = "prepare" => batch.pc = "idle"
     /\ (batch.pc = "prepare" /\ batch'.pc # "idle")
          => /\ batch'.pc = (IF batch.chunks = <<>> THEN "commit" ELSE "execute")
             /\ UNCHANGED <<txn, store>>
             /\ batch'.i = 1
     /\ (batch.pc = "execute" /\ batch'.pc # "idle")
          => /\ batch'.i = batch.i + 1
             /\ batch'.pc = (IF batch.i = Len(batch.chunks) THEN "commit" ELSE "execute")
             /\ store' = store
             /\ \E r \in txn'[1].chunks :
                  /\ r \notin txn[1].chunks
                  /\ txn'[1].chunks = txn[1].chunks \cup {r}
                  /\ r.comic_number = batch.chunks[batch.i].comic_number
                  /\ r.chunk_index = batch.chunks[batch.i].chunk_index
     /\ batch'.pc = "commit"
          => /\ batch'.i = Len(batch'.chunks) + 1
             /\ Cardinality(batch'.ids) = Len(batch'.chunks)
     /\ (batch.pc # "idle") => txn # <<>>
     /\ (batch.pc # "idle" /\ batch'.pc = "idle")
          => /\ txn' = <<>>
             /\ last'.op = "insert_chunks_batch"
             /\ IF last'.result = "Ok"
                THEN batch.pc = "commit" /\ store' = txn[1]
                ELSE store' = store]_vars

\* a batch of a chunk of each comic was committed
C28_Witness ==
  /\ last.op = "insert_chunks_batch" /\ last.result = "Ok"
  /\ batch.pc = "idle" /\ Cardinality(batch.ids) = 2
  /\ ChunksOf(store, 1) # {} /\ ChunksOf(store, 2) # {}

\* the chunks that tasks sharing the handle insert
SharedChunkInputs == {make_chunk(n, 0, Vec("0.5", EMBEDDING_DIM)) : n \in ComicNumbers}

\* C29: the id insert_chunk returns with Ok is the id of the row that call
\* has inserted, also when other insert_chunk and insert_chunks_batch calls
\* run on the same handle between its insert and its return; no two chunks
\* have the same id; and the call does the same whatever id field the caller
\* has put in the chunk.
C29_InsertChunkReturnsOwnId ==
  [][last'.op = "insert_chunk"
       => /\ insert_chunk_last_insert_rowid => returned' = single.own
          /\ \A chunk \in SharedChunkInputs :
               (insert_chunk(chunk, "none") /\ last'.result = "Ok")
                 => \E r \in View'.chunks :
                      /\ r.id = returned'
                      /\ r \notin View.chunks
                      /\ r.comic_number = chunk.comic_number
          /\ \A chunk \in SharedChunkInputs :
               insert_chunk(chunk, "none") => insert_chunk([chunk EXCEPT !.id = 7], "none")
          /\ \A r1, r2 \in View'.chunks : r1.id = r2.id => r1 = r2]_vars

\* the rows of the content d that the batch in flight has not inserted
NotOfBatch(d, ids) == {r \in d.chunks : r.id \notin ids}

\* C30: while a batch call is in flight, what the other calls on the handle
\* have written is persisted: the persisted comics are those the handle
\* reads, and the persisted chunks are the ones it reads less the rows of the
\* batch; a batch that fails leaves all of that persisted, and a batch that
\* commits adds to the persisted content its own rows and nothing else.
C30_BatchTransactionIsItsOwn ==
  [][/\ batch'.pc # "idle"
          => /\ store'.comics = View'.comics
             /\ store'.chunks = NotOfBatch(View', batch'.ids)
     /\ (batch.pc # "idle" /\ batch'.pc = "idle")
          => /\ store'.comics = View.comics
             /\ NotOfBatch(store', batch.ids) = NotOfBatch(View, batch.ids)
             /\ store'.comics = store.comics
             /\ \A r \in store'.chunks : r \in store.chunks \/ r.id \in batch.ids]_vars

\* C31: update_comic(n, rev_id, rev_ts, updated_at) of a stored comic n
\* returns Ok and sets last_revision_id, last_revision_timestamp and
\* updated_at of comic n to the values given; the other fields of comic n,
\* the other comics, the chunks and the metadata are as they were.
C31_UpdateComicFrame ==
  [][last'.op = "update_comic"
       => \A n \in ComicNumbers :
            (ComicExists(View, n)
               /\ update_comic(n, UpdateInput.last_revision_id,
                               UpdateInput.last_revision_timestamp,
                               UpdateInput.updated_at, "none"))
              => /\ last'.result = "Ok"
                 /\ \E c \in View.comics :
                      /\ c.comic_number = n
                      /\ View'.comics =
                           (View.comics \ {c})
                             \cup {[comic_number |-> n,
                                    title |-> c.title,
                                    url |-> c.url,
                                    xkcd_url |-> c.xkcd_url,
                                    hover_text |-> c.hover_text,
                                    last_revision_id |-> UpdateInput.last_revision_id,
                                    last_revision_timestamp |-> UpdateInput.last_revision_timestamp,
                                    scraped_at |-> c.scraped_at,
                                    updated_at |-> UpdateInput.updated_at]}
                 /\ View'.chunks = View.chunks
                 /\ View'.metadata = View.metadata]_vars

\* one of two stored comics, each with a chunk, was updated and the other
\* has the revision it was inserted with
C31_Witness ==
  /\ last.op = "update_comic" /\ last.result = "Ok"
  /\ \E c1, c2 \in store.comics :
       /\ c1.last_revision_id = UpdateInput.last_revision_id
       /\ c2.last_revision_id = make_comic(2, "H").last_revision_id
  /\ ChunksOf(store, 1) # {} /\ ChunksOf(store, 2) # {}

\* C32: schema creation runs at most once on a storage location: over all
\* the Database::new calls on the path, interleaved ones included,
\* create_tables is executed no more than once, and only by a call that
\* found no artifact there.
C32_SchemaCreatedOnce == opening.runs <= 1

====
